---- MODULE Spec2Model ----
(***************************************************************************)
(* A model of the error-value library sbreitf1/errors (package errors).    *)
(*                                                                         *)
(* Texts (messages, error types, rendered strings) are sequences of        *)
(* tokens; the token "%v" is a formatting verb, the token "%!" is the bad  *)
(* verb fmt itself writes in front of its (MISSING) / (EXTRA ...) notes,   *)
(* every other token is literal text.  The empty string is <<>>.           *)
(*                                                                         *)
(* Values are records with a field kind:                                   *)
(*   "nil"       the absent error (a nil interface value)                  *)
(*   "foreign"   an error value that is not this library's Error           *)
(*   "Template"  a Template struct                                         *)
(*   "Error"     a baseError struct                                        *)
(* The state is the one of a client that holds a template t, an error e,   *)
(* a second error c it kept from earlier, and the package-level globals.   *)
(***************************************************************************)
EXTENDS Integers, Sequences, FiniteSets, TLC

VARIABLES
    t,                  \* the Template the client is building
    e,                  \* the error value the client holds (Nil when absent)
    c,                  \* an error value the client kept from earlier
    heap,               \* the Go maps allocated so far: reference -> map
    clock,              \* what time.Now() returns
    PrintUnsafeErrors,  \* the package-level switch of that name
    panicked,           \* a runtime panic has ended the goroutine
    steps,              \* number of steps the client has taken so far
    log,                \* the calls made so far to Logger and to the
                        \* RequestAborter, in the order they were made
    threads,            \* the goroutines that share the value e: what each
                        \* is doing, on which copy, and what it got
    mark,               \* ghost: the length of log before the last call
    born,               \* ghost: trace and type e got when it was materialized
    last                \* ghost: the last call: [op, recv, arg, ret], and the
                        \* heap as it was before the call

vars == <<t, e, c, heap, clock, PrintUnsafeErrors, panicked, steps, log, threads,
          mark, born, last>>

(***************************************************************************)
(* Bounds of the model.                                                    *)
(***************************************************************************)
MaxSteps == 3

(***************************************************************************)
(* Program constants.                                                      *)
(***************************************************************************)
defaultHTTPCode == 500
defaultErrCode == 0
\* The nil map: the zero value of the map-typed field flags.tags.
NilMap == 0

Nil == [kind |-> "nil"]

\* A foreign error of concrete Go type gotype whose Error() returns text.
Foreign(gotype, text) == [kind |-> "foreign", gotype |-> gotype, text |-> text]

(***************************************************************************)
(* fmt.Sprintf on token texts.  A verb takes the next argument, or writes  *)
(* %!v(MISSING) when none is left; the bad verb "%!" writes                *)
(* %!!(MISSING), or %!!(string=arg) when an argument is left; arguments    *)
(* left over at the end are reported as %!(EXTRA string=arg).              *)
(***************************************************************************)
RECURSIVE Sprintf(_, _)
Sprintf(format, args) ==
    IF format = <<>>
    THEN IF args # <<>>
         THEN <<"%!", "(EXTRA string=">> \o args \o <<")">>
         ELSE <<>>
    ELSE LET tok == Head(format)
             rest == Tail(format)
         IN  IF tok = "%v"
             THEN IF args = <<>>
                  THEN <<"%!", "v(MISSING)">> \o Sprintf(rest, args)
                  ELSE <<Head(args)>> \o Sprintf(rest, Tail(args))
             ELSE IF tok = "%!"
             THEN IF args = <<>>
                  THEN <<"%!", "!(MISSING)">> \o Sprintf(rest, args)
                  ELSE <<"%!", "!(string=", Head(args), ")">>
                           \o Sprintf(rest, Tail(args))
             ELSE <<tok>> \o Sprintf(rest, args)

(***************************************************************************)
(* trace data                                                              *)
(***************************************************************************)
\* The first 8 bytes of the SHA-1 of "errType|message|now", in hex: a
\* non-empty text, of one token, that is a function of the three inputs.
generateID(errType, message, now) == <<ToString(<<errType, message, now>>)>>

\* The lines of debug.Stack() for a call stack (innermost frame first):
\* one line for the goroutine, then two lines per frame.
RECURSIVE StackLines(_)
StackLines(frames) ==
    IF frames = <<>> THEN <<>>
    ELSE <<Head(frames), "(file:line)">> \o StackLines(Tail(frames))

DebugStack(frames) == <<"goroutine 1 [running]:">> \o StackLines(frames)

\* frames is the call stack at the call of getStackTrace, innermost first,
\* beginning with getStackTrace itself; debug.Stack adds its own frame.
getStackTrace(depth, frames) ==
    LET lines == DebugStack(<<"debug.Stack">> \o frames)
        from == 1 + 2 * (depth + 2)     \* 0-based index of the first line kept
    IN  <<lines[1]>> \o SubSeq(lines, from + 1, Len(lines))

(***************************************************************************)
(* Template                                                                *)
(***************************************************************************)
mkTemplate(errType, content, flags, api) ==
    [kind |-> "Template", errType |-> errType, content |-> content,
     flags |-> flags, api |-> api]

mkError(errType, content, flags, trace, api) ==
    [kind |-> "Error", errType |-> errType, content |-> content,
     flags |-> flags, trace |-> trace, api |-> api]

\* fmt.Sprintf(fmt.Sprintf("%s", msg), args...)
SprintfHack(msg, args) == Sprintf(msg, args)

\* Mutant of New: leaves the message of the template empty.
NewWithoutMessage(msg, args) ==
    LET content == [message |-> <<>>, cause |-> Nil]
        flags == [track |-> TRUE, trace |-> FALSE, isSafe |-> FALSE, tags |-> NilMap]
        api == [httpCode |-> defaultHTTPCode, errCode |-> defaultErrCode]
    IN  mkTemplate(msg, content, flags, api)

New(msg, args) ==
    LET content == [message |-> IF Len(args) > 0 THEN SprintfHack(msg, args) ELSE msg,
                    cause |-> Nil]
        flags == [track |-> TRUE, trace |-> FALSE, isSafe |-> FALSE, tags |-> NilMap]
        api == [httpCode |-> defaultHTTPCode, errCode |-> defaultErrCode]
    IN  mkTemplate(msg, content, flags, api)

TemplateGetType(tm) == tm.errType

TemplateTrack(tm) ==
    mkTemplate(tm.errType, tm.content, [tm.flags EXCEPT !.track = TRUE], tm.api)

\* Mutant of Template.Untrack: leaves the trace flag as it is.
TemplateUntrackKeepsTrace(tm) ==
    mkTemplate(tm.errType, tm.content, [tm.flags EXCEPT !.track = FALSE], tm.api)

TemplateUntrack(tm) ==
    mkTemplate(tm.errType, tm.content,
               [tm.flags EXCEPT !.track = FALSE, !.trace = FALSE], tm.api)

TemplateTrace(tm) ==
    mkTemplate(tm.errType, tm.content,
               [tm.flags EXCEPT !.track = TRUE, !.trace = TRUE], tm.api)

TemplateNoTrace(tm) ==
    mkTemplate(tm.errType, tm.content, [tm.flags EXCEPT !.trace = FALSE], tm.api)

TemplateSafe(tm) ==
    mkTemplate(tm.errType, tm.content, [tm.flags EXCEPT !.isSafe = TRUE], tm.api)

TemplateMsg(tm, msg, args) ==
    LET content == [tm.content EXCEPT
                      !.message = IF Len(args) = 0 THEN msg ELSE SprintfHack(msg, args)]
    IN  mkTemplate(tm.errType, content, tm.flags, tm.api)

TemplateArgs(tm, args) ==
    LET content == [tm.content EXCEPT !.message = Sprintf(tm.content.message, args)]
    IN  mkTemplate(tm.errType, content, tm.flags, tm.api)

\* Mutant of Template.API: leaves the template tracked.
TemplateAPIKeepsTrack(tm, httpCode, errCode) ==
    LET flags == [tm.flags EXCEPT !.trace = FALSE, !.isSafe = TRUE]
        api == [tm.api EXCEPT !.httpCode = httpCode, !.errCode = errCode]
    IN  mkTemplate(tm.errType, tm.content, flags, api)

TemplateAPI(tm, httpCode, errCode) ==
    LET flags == [tm.flags EXCEPT !.track = FALSE, !.trace = FALSE, !.isSafe = TRUE]
        api == [tm.api EXCEPT !.httpCode = httpCode, !.errCode = errCode]
    IN  mkTemplate(tm.errType, tm.content, flags, api)

TemplateHTTPCode(tm, code) ==
    mkTemplate(tm.errType, tm.content, tm.flags, [tm.api EXCEPT !.httpCode = code])

TemplateErrCode(tm, code) ==
    mkTemplate(tm.errType, tm.content, tm.flags, [tm.api EXCEPT !.errCode = code])

\* t.make(depth) called with the call stack frames (innermost first, make
\* itself on top) at time now.
make(tm, depth, frames, now) ==
    LET trace == [id |-> generateID(tm.errType, tm.content.message, now),
                  stackTrace |-> getStackTrace(depth + 1, <<"getStackTrace">> \o frames)]
    IN  mkError(tm.errType, tm.content, tm.flags, trace, tm.api)

\* t.Make() called from a function whose call stack is caller.
Make(tm, caller, now) == make(tm, 1, <<"make", "Make">> \o caller, now)

\* t.MakeTraced(depth) called from a function whose call stack is caller.
MakeTraced(tm, depth, caller, now) ==
    make(tm, depth + 1, <<"make", "MakeTraced">> \o caller, now)

\* The package-level templates.
GenericError == TemplateTrace(New(<<"An error occured">>, <<>>))
ConfigurationError == New(<<"The specified configuration is not valid">>, <<>>)
ArgumentError == New(<<"An invalid argument has been supplied">>, <<>>)

(***************************************************************************)
(* Error: accessors                                                        *)
(***************************************************************************)
GetType(err) == err.errType
GetID(err) == err.trace.id
GetStackTrace(err) == err.trace.stackTrace

\* Reading the map m of the heap h; reading a nil map finds nothing.
MapHas(h, m, tag) == m # NilMap /\ tag \in DOMAIN h[m]

IsTagged(h, err, tag) == MapHas(h, err.flags.tags, tag)

\* The values a tag can hold (interface{}): nil, a string or an int.
TagNil == [type |-> "nil", str |-> "", int |-> 0]
TagOfStr(value) == [type |-> "string", str |-> value, int |-> 0]
TagOfInt(value) == [type |-> "int", str |-> "", int |-> value]

\* (value, ok): ok only when the tag is there and holds a string.
GetTagStr(h, err, tag) ==
    IF MapHas(h, err.flags.tags, tag)
    THEN LET val == h[err.flags.tags][tag]
         IN  IF val.type = "string" THEN <<val.str, TRUE>> ELSE <<"", FALSE>>
    ELSE <<"", FALSE>>

\* (value, ok): ok only when the tag is there and holds an int.
GetTagInt(h, err, tag) ==
    IF MapHas(h, err.flags.tags, tag)
    THEN LET val == h[err.flags.tags][tag]
         IN  IF val.type = "int" THEN <<val.int, TRUE>> ELSE <<0, FALSE>>
    ELSE <<0, FALSE>>

(***************************************************************************)
(* Instantiation                                                           *)
(***************************************************************************)
\* Mutant of getErrorType: formats a foreign error with %v, not with %T.
getErrorTypeByText(err) ==
    IF err.kind = "Error" THEN GetType(err) ELSE err.text

getErrorType(err) ==
    IF err.kind = "Error" THEN GetType(err) ELSE err.gotype

\* Mutant of wrap: has no case for a value that is an Error already.
wrapAgain(baseErr, withType, depth, frames, now) ==
    IF baseErr.kind = "nil" THEN Nil
    ELSE LET errType == IF baseErr.kind = "Error" THEN baseErr.errType
                        ELSE baseErr.gotype
             text == IF baseErr.kind = "Error" THEN baseErr.content.message
                     ELSE baseErr.text
         IN  make(TemplateTrace(TemplateMsg(New(errType, <<>>), text, <<>>)),
                  depth + 1, <<"make">> \o frames, now)

\* Mutant of wrap: does not call Trace() on the template it makes.
wrapUntraced(baseErr, withType, depth, frames, now) ==
    IF baseErr.kind = "nil" THEN Nil
    ELSE IF baseErr.kind = "Error" THEN baseErr
    ELSE make(TemplateMsg(New(baseErr.gotype, <<>>), baseErr.text, <<>>),
              depth + 1, <<"make">> \o frames, now)

\* wrap(baseErr, withType, depth) with the call stack frames (wrap on top).
wrap(baseErr, withType, depth, frames, now) ==
    IF baseErr.kind = "nil" THEN Nil
    ELSE IF baseErr.kind = "Error" THEN baseErr
    ELSE LET errType == getErrorType(baseErr)
             text == baseErr.text
             msg == IF withType
                    THEN IF text # <<>> THEN <<"[">> \o errType \o <<"] ">> \o text
                         ELSE errType
                    ELSE text
         IN  make(TemplateTrace(TemplateMsg(New(errType, <<>>), msg, <<>>)),
                  depth + 1, <<"make">> \o frames, now)

\* Wrap(baseErr) called from a function whose call stack is caller.
Wrap(baseErr, caller, now) == wrap(baseErr, FALSE, 1, <<"wrap", "Wrap">> \o caller, now)

WrapT(baseErr, caller, now) == wrap(baseErr, TRUE, 1, <<"wrap", "WrapT">> \o caller, now)

(***************************************************************************)
(* Error: mutator functions                                                *)
(***************************************************************************)
\* Mutant of Untrack: drops the trace data as well.
UntrackDropsTrace(err) ==
    mkError(err.errType, err.content, [err.flags EXCEPT !.track = FALSE],
            [id |-> <<>>, stackTrace |-> <<>>], err.api)

\* Mutant of Untrack: clears the trace flag too, as Template.Untrack does.
UntrackLikeTemplate(err) ==
    mkError(err.errType, err.content,
            [err.flags EXCEPT !.track = FALSE, !.trace = FALSE], err.trace, err.api)

Untrack(err) ==
    mkError(err.errType, err.content, [err.flags EXCEPT !.track = FALSE],
            err.trace, err.api)

NoTrace(err) ==
    mkError(err.errType, err.content, [err.flags EXCEPT !.trace = FALSE],
            err.trace, err.api)

Safe(err) ==
    mkError(err.errType, err.content, [err.flags EXCEPT !.isSafe = TRUE],
            err.trace, err.api)

\* Mutant of Msg: leaves the safe flag as it is.
MsgKeepsSafe(err, msg, args) ==
    LET content == [err.content EXCEPT
                      !.message = IF Len(args) = 0 THEN msg ELSE SprintfHack(msg, args)]
    IN  mkError(err.errType, content, err.flags, err.trace, err.api)

Msg(err, msg, args) ==
    LET content == [err.content EXCEPT
                      !.message = IF Len(args) = 0 THEN msg ELSE SprintfHack(msg, args)]
        flags == [err.flags EXCEPT !.isSafe = FALSE]
    IN  mkError(err.errType, content, flags, err.trace, err.api)

Args(err, args) ==
    LET content == [err.content EXCEPT !.message = Sprintf(err.content.message, args)]
    IN  mkError(err.errType, content, err.flags, err.trace, err.api)

\* Mutant of Cause: keeps the cause the receiver has, when it has one.
CauseIfNone(err, cause, caller, now) ==
    LET content == [err.content EXCEPT
                      !.cause = IF @.kind = "nil"
                                THEN Wrap(cause, <<"Cause">> \o caller, now) ELSE @]
    IN  mkError(err.errType, content, err.flags, err.trace, err.api)

Cause(err, cause, caller, now) ==
    LET content == [err.content EXCEPT !.cause = Wrap(cause, <<"Cause">> \o caller, now)]
    IN  mkError(err.errType, content, err.flags, err.trace, err.api)

\* Mutant of StrCause: makes the cause from GenericError as it is, traced.
StrCauseTraced(err, str, args, caller, now) ==
    LET generic == Make(TemplateMsg(GenericError, str, args),
                        <<"StrCause">> \o caller, now)
        content == [err.content EXCEPT !.cause = generic]
    IN  mkError(err.errType, content, err.flags, err.trace, err.api)

StrCause(err, str, args, caller, now) ==
    LET generic == Make(TemplateUntrack(TemplateMsg(GenericError, str, args)),
                        <<"StrCause">> \o caller, now)
        content == [err.content EXCEPT !.cause = generic]
    IN  mkError(err.errType, content, err.flags, err.trace, err.api)

\* Mutant of Expand: builds the result with the message as its type.
ExpandRetyped(err, msg, args) ==
    LET content == [err.content EXCEPT !.message = Sprintf(msg, args), !.cause = err]
        flags == [err.flags EXCEPT !.isSafe = FALSE]
    IN  mkError(Sprintf(msg, args), content, flags, err.trace, err.api)

\* Mutant of Expand: stores msg unformatted when no args are given, as Msg
\* does.
ExpandUnformatted(err, msg, args) ==
    LET content == [err.content EXCEPT
                      !.message = IF Len(args) = 0 THEN msg ELSE Sprintf(msg, args),
                      !.cause = err]
        flags == [err.flags EXCEPT !.isSafe = FALSE]
    IN  mkError(err.errType, content, flags, err.trace, err.api)

Expand(err, msg, args) ==
    LET content == [err.content EXCEPT !.message = Sprintf(msg, args), !.cause = err]
        flags == [err.flags EXCEPT !.isSafe = FALSE]
    IN  mkError(err.errType, content, flags, err.trace, err.api)

\* Mutant of ExpandSafe: puts a copy of the new node between the new node
\* and the receiver.
ExpandSafeTwice(err, msg, args) ==
    LET content == [err.content EXCEPT !.message = Sprintf(msg, args),
                                       !.cause = Expand(err, msg, args)]
        flags == [err.flags EXCEPT !.isSafe = TRUE]
    IN  mkError(err.errType, content, flags, err.trace, err.api)

ExpandSafe(err, msg, args) ==
    LET content == [err.content EXCEPT !.message = Sprintf(msg, args), !.cause = err]
        flags == [err.flags EXCEPT !.isSafe = TRUE]
    IN  mkError(err.errType, content, flags, err.trace, err.api)

HTTPCode(err, code) ==
    mkError(err.errType, err.content, err.flags, err.trace,
            [err.api EXCEPT !.httpCode = code])

ErrCode(err, code) ==
    mkError(err.errType, err.content, err.flags, err.trace,
            [err.api EXCEPT !.errCode = code])

\* flags.tags[tag] = value: a write to a nil map panics ("assignment to
\* entry in nil map"); a write to a map changes the map every copy of the
\* flags refers to.
MapAssignPanics(m) == m = NilMap

MapAssign(h, m, tag, value) ==
    [h EXCEPT ![m] = [k \in DOMAIN h[m] \cup {tag} |->
                         IF k = tag THEN value ELSE h[m][k]]]

\* The value Tag, TagStr and TagInt return when the write does not panic:
\* the flags are copied, the map they refer to is the same.
Tagged(err) == mkError(err.errType, err.content, err.flags, err.trace, err.api)

(***************************************************************************)
(* Comparison                                                              *)
(***************************************************************************)
areEqual(type1, type2) == type1 = type2

Equals(err, other) ==
    IF other.kind = "nil" THEN FALSE
    ELSE err.errType = getErrorType(other)

Is(err, template) == err.errType = TemplateGetType(template)

\* Mutant of AreEqual: takes one absent side for two.
AreEqualNilLoose(err1, err2) ==
    IF err1.kind = "nil" \/ err2.kind = "nil" THEN TRUE
    ELSE areEqual(getErrorType(err1), getErrorType(err2))

AreEqual(err1, err2) ==
    IF err1.kind = "nil" /\ err2.kind = "nil" THEN TRUE
    ELSE IF err1.kind = "nil" \/ err2.kind = "nil" THEN FALSE
    ELSE areEqual(getErrorType(err1), getErrorType(err2))

InstanceOf(err, template) ==
    IF err.kind = "nil" THEN FALSE
    ELSE getErrorType(err) = TemplateGetType(template)

(***************************************************************************)
(* Error output                                                            *)
(***************************************************************************)
\* Mutant of string: renders the causes in full, whatever onlySafe says.
RECURSIVE stringLeaksCause(_, _)
stringLeaksCause(err, onlySafe) ==
    IF ~onlySafe \/ err.flags.isSafe
    THEN LET prefix == IF err.content.message = <<>> THEN err.errType
                       ELSE err.content.message
             inner == IF err.content.cause.kind # "nil"
                      THEN stringLeaksCause(err.content.cause, FALSE)
                      ELSE <<>>
             suffix == IF Len(inner) > 0 THEN <<": ">> \o inner ELSE <<>>
         IN  prefix \o suffix
    ELSE <<>>

\* Mutant of string: a safe node with an unsafe cause renders nothing.
RECURSIVE stringHiddenByCause(_, _)
stringHiddenByCause(err, onlySafe) ==
    IF ~onlySafe \/ err.flags.isSafe
    THEN LET prefix == IF err.content.message = <<>> THEN err.errType
                       ELSE err.content.message
             inner == IF err.content.cause.kind # "nil"
                      THEN stringHiddenByCause(err.content.cause, onlySafe)
                      ELSE <<>>
             suffix == IF Len(inner) > 0 THEN <<": ">> \o inner ELSE <<>>
         IN  IF err.content.cause.kind # "nil" /\ Len(inner) = 0 THEN <<>>
             ELSE prefix \o suffix
    ELSE <<>>

\* Mutant of string: writes the separator whenever there is a cause.
RECURSIVE stringAlwaysColon(_, _)
stringAlwaysColon(err, onlySafe) ==
    IF ~onlySafe \/ err.flags.isSafe
    THEN LET prefix == IF err.content.message = <<>> THEN err.errType
                       ELSE err.content.message
             inner == IF err.content.cause.kind # "nil"
                      THEN stringAlwaysColon(err.content.cause, onlySafe)
                      ELSE <<>>
             suffix == IF err.content.cause.kind # "nil" THEN <<": ">> \o inner
                       ELSE <<>>
         IN  prefix \o suffix
    ELSE <<>>

RECURSIVE string(_, _)
string(err, onlySafe) ==
    IF ~onlySafe \/ err.flags.isSafe
    THEN LET prefix == IF err.content.message = <<>> THEN err.errType
                       ELSE err.content.message
             inner == IF err.content.cause.kind # "nil"
                      THEN string(err.content.cause, onlySafe)
                      ELSE <<>>
             suffix == IF Len(inner) > 0 THEN <<": ">> \o inner ELSE <<>>
         IN  prefix \o suffix
    ELSE <<>>

String(err) == string(err, FALSE)
Error(err) == String(err)
SafeString(err) == string(err, TRUE)

\* Mutant of API: writes the placeholder text without the id.
APIPlaceholderBare(err, printUnsafe) ==
    LET suffix == IF err.flags.track /\ Len(err.trace.id) > 0
                  THEN <<" [ID ">> \o err.trace.id \o <<"]">>
                  ELSE <<>>
        message == IF printUnsafe THEN Error(err) \o suffix
                   ELSE IF err.flags.isSafe THEN SafeString(err) \o suffix
                   ELSE <<"An error occured">>
    IN  [ResponseCode |-> err.api.httpCode, ErrorCode |-> err.api.errCode,
         Message |-> message]

\* err.API() while the switch PrintUnsafeErrors has the value printUnsafe.
API(err, printUnsafe) ==
    LET suffix == IF err.flags.track /\ Len(err.trace.id) > 0
                  THEN <<" [ID ">> \o err.trace.id \o <<"]">>
                  ELSE <<>>
        message == IF printUnsafe THEN Error(err) \o suffix
                   ELSE IF err.flags.isSafe THEN SafeString(err) \o suffix
                   ELSE <<"An error occured">> \o suffix
    IN  [ResponseCode |-> err.api.httpCode, ErrorCode |-> err.api.errCode,
         Message |-> message]

(***************************************************************************)
(* Logging and request output.  A call of Logger and a call of the         *)
(* RequestAborter are records; an operation's output is the sequence of    *)
(* the calls it makes, in the order it makes them.                         *)
(***************************************************************************)
LoggerCall(format, args) == [call |-> "Logger", format |-> format, args |-> args]

AbortWithStatusJSON(code, obj) ==
    [call |-> "AbortWithStatusJSON", code |-> code, obj |-> obj]

\* Mutant of toLog: looks at the first entry of the exclusion list only.
toLogFirstExcept(err, except) ==
    IF Len(except) > 0 /\ areEqual(err.errType, except[1].errType)
    THEN <<>>
    ELSE (IF Len(err.trace.id) > 0
          THEN IF ~err.flags.track
               THEN <<LoggerCall(<<"[ERR] ", "%v">>, <<Error(err)>>)>>
               ELSE <<LoggerCall(<<"[ERR ", "%v", "] ", "%v">>,
                                 <<err.trace.id, Error(err)>>)>>
          ELSE <<>>)
         \o (IF err.flags.trace /\ Len(err.trace.stackTrace) > 0
             THEN IF ~err.flags.track
                  THEN <<LoggerCall(<<"[STACK] ", "%v">>, <<err.trace.stackTrace>>)>>
                  ELSE <<LoggerCall(<<"[STACK ", "%v", "] ", "%v">>,
                                    <<err.trace.id, err.trace.stackTrace>>)>>
             ELSE <<>>)

\* Mutant of toLog: writes the stack trace whatever the trace flag is.
toLogStackUnflagged(err, except) ==
    IF \E i \in 1..Len(except) : areEqual(err.errType, except[i].errType)
    THEN <<>>
    ELSE (IF Len(err.trace.id) > 0
          THEN IF ~err.flags.track
               THEN <<LoggerCall(<<"[ERR] ", "%v">>, <<Error(err)>>)>>
               ELSE <<LoggerCall(<<"[ERR ", "%v", "] ", "%v">>,
                                 <<err.trace.id, Error(err)>>)>>
          ELSE <<>>)
         \o (IF Len(err.trace.stackTrace) > 0
             THEN IF ~err.flags.track
                  THEN <<LoggerCall(<<"[STACK] ", "%v">>, <<err.trace.stackTrace>>)>>
                  ELSE <<LoggerCall(<<"[STACK ", "%v", "] ", "%v">>,
                                    <<err.trace.id, err.trace.stackTrace>>)>>
             ELSE <<>>)

toLog(err, except) ==
    IF \E i \in 1..Len(except) : areEqual(err.errType, except[i].errType)
    THEN <<>>
    ELSE (IF Len(err.trace.id) > 0
          THEN IF ~err.flags.track
               THEN <<LoggerCall(<<"[ERR] ", "%v">>, <<Error(err)>>)>>
               ELSE <<LoggerCall(<<"[ERR ", "%v", "] ", "%v">>,
                                 <<err.trace.id, Error(err)>>)>>
          ELSE <<>>)
         \o (IF err.flags.trace /\ Len(err.trace.stackTrace) > 0
             THEN IF ~err.flags.track
                  THEN <<LoggerCall(<<"[STACK] ", "%v">>, <<err.trace.stackTrace>>)>>
                  ELSE <<LoggerCall(<<"[STACK ", "%v", "] ", "%v">>,
                                    <<err.trace.id, err.trace.stackTrace>>)>>
             ELSE <<>>)

ToLog(err, except) == IF err.flags.track THEN toLog(err, except) ELSE <<>>

\* Mutant of ForceLog: logs tracked errors only, as ToLog does.
ForceLogTrackedOnly(err, except) ==
    IF err.flags.track THEN toLog(err, except) ELSE <<>>

ForceLog(err, except) == toLog(err, except)

\* APIError.ToRequest(r)
APIErrorToRequest(apiErr) == <<AbortWithStatusJSON(apiErr.ResponseCode, apiErr)>>

\* err.ToRequest(r) while the switch PrintUnsafeErrors has the value printUnsafe.
ToRequest(err, printUnsafe) == APIErrorToRequest(API(err, printUnsafe))

\* Mutant of the function ToRequest: writes an absent error to the request.
PkgToRequestAlways(err, caller, now, printUnsafe) ==
    [ret |-> TRUE,
     out |-> IF err.kind = "nil"
             THEN APIErrorToRequest([ResponseCode |-> defaultHTTPCode,
                                     ErrorCode |-> defaultErrCode,
                                     Message |-> <<"An error occured">>])
             ELSE ToRequest(Wrap(err, <<"ToRequest">> \o caller, now), printUnsafe)]

\* The function ToRequest(r, err) of the package: what it returns and the
\* calls it makes.
PkgToRequest(err, caller, now, printUnsafe) ==
    IF err.kind = "nil" THEN [ret |-> FALSE, out |-> <<>>]
    ELSE [ret |-> TRUE,
          out |-> ToRequest(Wrap(err, <<"ToRequest">> \o caller, now), printUnsafe)]

\* Mutant of ToRequestAndLog: aborts the request first and logs afterwards.
ToRequestThenLog(err, except, printUnsafe) ==
    ToRequest(err, printUnsafe) \o ToLog(err, except)

ToRequestAndLog(err, except, printUnsafe) ==
    ToLog(err, except) \o ToRequest(err, printUnsafe)

ToRequestAndForceLog(err, except, printUnsafe) ==
    ForceLog(err, except) \o ToRequest(err, printUnsafe)

(***************************************************************************)
(* The inputs the client draws its arguments from.                         *)
(***************************************************************************)
NewMsgs == {<<"File ", "%v", " not found">>, <<>>}
\* The (format, args) pairs passed to the calls that take a message.
MsgCalls == {<<<<"secret">>, <<>>>>, <<<<"value ", "%v">>, <<>>>>,
             <<<<"value ", "%v">>, <<"a">>>>, <<<<>>, <<>>>>}
ArgLists == {<<>>, <<"a">>}
HTTPCodes == {400}
ErrCodes == {42}
TagNames == {"retry"}
Foreigns == {Foreign(<<"*errors.errorString">>, <<"inner">>),
             Foreign(<<"*errors.errorString">>, <<>>),
             Foreign(<<"*os.PathError">>, <<"inner">>)}
\* The call stack of the client function that calls into the package.
CallerStack == <<"innerMakeTraced", "TestMakeTraced">>
\* The frames MakeTraced is asked to skip.
TraceDepths == {1}

\* The goroutines that share the error e, and a goroutine that has not
\* called anything yet.
Threads == {1, 2}
Idle == [pc |-> "idle", op |-> "none", recv |-> Nil, ret |-> Nil]

NoCall == [op |-> "init", recv |-> Nil, arg |-> Nil, ret |-> Nil, was |-> heap]
NotBorn == [trace |-> [id |-> <<>>, stackTrace |-> <<>>], errType |-> <<>>,
            via |-> "none", at |-> 0]
BornAs(err, via, now) ==
    [trace |-> err.trace, errType |-> err.errType, via |-> via, at |-> now]

Init ==
    /\ t \in {GenericError, ArgumentError}
    /\ e = Nil
    /\ c = Nil
    /\ heap = <<>>
    /\ clock = 0
    /\ PrintUnsafeErrors = FALSE
    /\ panicked = FALSE
    /\ steps = 0
    /\ log = <<>>
    /\ threads = [i \in Threads |-> Idle]
    /\ mark = 0
    /\ born = NotBorn
    /\ last = NoCall

Running == ~panicked
MayStep == Running /\ steps < MaxSteps
\* The client builds its template before it materializes the first error.
Building == MayStep /\ born = NotBorn

\* A call on the template t that returns the template ret.
TemplateCall(op, arg, ret) ==
    /\ Building
    /\ t' = ret
    /\ steps' = steps + 1
    /\ last' = [op |-> op, recv |-> t, arg |-> arg, ret |-> ret, was |-> heap]
    /\ UNCHANGED <<log, mark, threads, e, c, heap, clock, PrintUnsafeErrors, panicked, born>>

DoNew ==
    \E msg \in NewMsgs, args \in ArgLists :
        /\ Building
        /\ t' = New(msg, args)
        /\ steps' = steps + 1
        /\ last' = [op |-> "New", recv |-> Nil, arg |-> <<msg, args>>, ret |-> t', was |-> heap]
        /\ UNCHANGED <<log, mark, threads, e, c, heap, clock, PrintUnsafeErrors, panicked, born>>

DoTemplateTrack == TemplateCall("Template.Track", Nil, TemplateTrack(t))
DoTemplateUntrack == TemplateCall("Template.Untrack", Nil, TemplateUntrack(t))
DoTemplateTrace == TemplateCall("Template.Trace", Nil, TemplateTrace(t))
DoTemplateNoTrace == TemplateCall("Template.NoTrace", Nil, TemplateNoTrace(t))
DoTemplateSafe == TemplateCall("Template.Safe", Nil, TemplateSafe(t))
DoTemplateMsg ==
    \E m \in MsgCalls :
        TemplateCall("Template.Msg", m, TemplateMsg(t, m[1], m[2]))
DoTemplateArgs ==
    \E args \in ArgLists : TemplateCall("Template.Args", args, TemplateArgs(t, args))
DoTemplateAPI ==
    \E h \in HTTPCodes, ec \in ErrCodes :
        TemplateCall("Template.API", <<h, ec>>, TemplateAPI(t, h, ec))
DoTemplateHTTPCode ==
    \E h \in HTTPCodes : TemplateCall("Template.HTTPCode", h, TemplateHTTPCode(t, h))
DoTemplateErrCode ==
    \E ec \in ErrCodes : TemplateCall("Template.ErrCode", ec, TemplateErrCode(t, ec))

\* A call that materializes the error ret: e = t.Make() and the like.
Materialize(op, recv, arg, ret) ==
    /\ MayStep
    /\ e' = ret
    /\ born' = IF ret.kind = "Error" THEN BornAs(ret, op, clock) ELSE NotBorn
    /\ steps' = steps + 1
    /\ last' = [op |-> op, recv |-> recv, arg |-> arg, ret |-> ret, was |-> heap]
    /\ UNCHANGED <<log, mark, threads, t, c, heap, clock, PrintUnsafeErrors, panicked>>

DoMake == Materialize("Make", t, Nil, Make(t, CallerStack, clock))

DoMakeTraced ==
    \E d \in TraceDepths :
        Materialize("MakeTraced", t, d, MakeTraced(t, d, CallerStack, clock))

\* e = Wrap(x) for a foreign error or nil.
DoWrap ==
    \E x \in Foreigns \cup {Nil} :
        Materialize("Wrap", Nil, x, Wrap(x, CallerStack, clock))

\* e = Wrap(e) for an e that is an Error already.
DoWrapError ==
    /\ MayStep
    /\ e.kind = "Error"
    /\ e' = Wrap(e, CallerStack, clock)
    /\ steps' = steps + 1
    /\ last' = [op |-> "Wrap", recv |-> Nil, arg |-> e, ret |-> e', was |-> heap]
    /\ UNCHANGED <<log, mark, threads, t, c, heap, clock, PrintUnsafeErrors, panicked, born>>

\* A call of a mutator on the error e that returns the error ret.
ErrorCall(op, arg, ret) ==
    /\ MayStep
    /\ e.kind = "Error"
    /\ e' = ret
    /\ steps' = steps + 1
    /\ last' = [op |-> op, recv |-> e, arg |-> arg, ret |-> ret, was |-> heap]
    /\ UNCHANGED <<log, mark, threads, t, c, heap, clock, PrintUnsafeErrors, panicked, born>>

DoUntrack == ErrorCall("Untrack", Nil, Untrack(e))
DoNoTrace == ErrorCall("NoTrace", Nil, NoTrace(e))
DoSafe == ErrorCall("Safe", Nil, Safe(e))
DoMsg ==
    \E m \in MsgCalls : ErrorCall("Msg", m, Msg(e, m[1], m[2]))
DoArgs == \E args \in ArgLists : ErrorCall("Args", args, Args(e, args))
DoCause ==
    \E x \in Foreigns \cup {Nil, c} :
        ErrorCall("Cause", x, Cause(e, x, CallerStack, clock))
DoStrCause ==
    \E m \in MsgCalls :
        ErrorCall("StrCause", m, StrCause(e, m[1], m[2], CallerStack, clock))
DoExpand ==
    \E m \in MsgCalls : ErrorCall("Expand", m, Expand(e, m[1], m[2]))
DoExpandSafe ==
    \E m \in MsgCalls : ErrorCall("ExpandSafe", m, ExpandSafe(e, m[1], m[2]))
DoHTTPCode == \E h \in HTTPCodes : ErrorCall("HTTPCode", h, HTTPCode(e, h))
DoErrCode == \E ec \in ErrCodes : ErrorCall("ErrCode", ec, ErrCode(e, ec))

\* e.Tag(tag), e.TagStr(tag, value), e.TagInt(tag, value): the map write
\* either panics or changes the shared map, and then the copy is returned.
TagCall(op, tag, value) ==
    /\ MayStep
    /\ e.kind = "Error"
    /\ steps' = steps + 1
    /\ IF MapAssignPanics(e.flags.tags)
       THEN /\ panicked' = TRUE
            /\ last' = [op |-> op, recv |-> e, arg |-> <<tag, value>>, ret |-> Nil, was |-> heap]
            /\ UNCHANGED <<e, heap>>
       ELSE /\ heap' = MapAssign(heap, e.flags.tags, tag, value)
            /\ e' = Tagged(e)
            /\ last' = [op |-> op, recv |-> e, arg |-> <<tag, value>>, ret |-> e', was |-> heap]
            /\ UNCHANGED panicked
    /\ UNCHANGED <<log, mark, threads, t, c, clock, PrintUnsafeErrors, born>>

DoTag == \E tag \in TagNames : TagCall("Tag", tag, TagNil)
DoTagStr == \E tag \in TagNames : TagCall("TagStr", tag, TagOfStr("text"))
DoTagInt == \E tag \in TagNames : TagCall("TagInt", tag, TagOfInt(7))

\* The client keeps the error it holds in a second variable.
Keep ==
    /\ MayStep
    /\ e.kind = "Error"
    /\ c # e
    /\ c' = e
    /\ steps' = steps + 1
    /\ last' = [op |-> "keep", recv |-> Nil, arg |-> e, ret |-> c', was |-> heap]
    /\ UNCHANGED <<log, mark, threads, t, e, heap, clock, PrintUnsafeErrors, panicked, born>>

\* Time passes between two calls; the clock never runs past the calls made.
Tick ==
    /\ MayStep
    /\ clock' = clock + 1
    /\ steps' = steps + 1
    /\ last' = [op |-> "tick", recv |-> Nil, arg |-> Nil, ret |-> Nil, was |-> heap]
    /\ UNCHANGED <<log, mark, threads, t, e, c, heap, PrintUnsafeErrors, panicked, born>>

\* The program assigns the package-level switch.
SetPrintUnsafeErrors ==
    /\ MayStep
    /\ PrintUnsafeErrors' = ~PrintUnsafeErrors
    /\ steps' = steps + 1
    /\ last' = [op |-> "set", recv |-> Nil, arg |-> Nil, ret |-> Nil, was |-> heap]
    /\ UNCHANGED <<log, mark, threads, t, e, c, heap, clock, panicked, born>>

\* A call that returns ret and changes nothing.
Query(op, recv, arg, ret) ==
    /\ MayStep
    /\ steps' = steps + 1
    /\ last' = [op |-> op, recv |-> recv, arg |-> arg, ret |-> ret, was |-> heap]
    /\ UNCHANGED <<log, mark, threads, t, e, c, heap, clock, PrintUnsafeErrors, panicked, born>>

\* The error values the client can pass to a comparison.
Operands == Foreigns \cup {Nil, e, c}
\* The values it passes as the first argument of a comparison function.
FirstOperands == {Nil, e, Foreign(<<"*errors.errorString">>, <<"inner">>)}
\* The templates the client can pass to a comparison.
Templates == {t, GenericError}

DoEquals ==
    /\ e.kind = "Error"
    /\ \E x \in Operands : Query("Equals", e, x, Equals(e, x))
DoIs ==
    /\ e.kind = "Error"
    /\ \E tm \in Templates : Query("Is", e, tm, Is(e, tm))
DoAreEqual ==
    \E x \in FirstOperands, y \in Operands : Query("AreEqual", x, y, AreEqual(x, y))
DoInstanceOf ==
    \E x \in FirstOperands, tm \in Templates :
        Query("InstanceOf", x, tm, InstanceOf(x, tm))
DoAPI ==
    /\ e.kind = "Error"
    /\ Query("API", e, Nil, API(e, PrintUnsafeErrors))

\* The renderings.
DoError == e.kind = "Error" /\ Query("Error", e, Nil, Error(e))
DoString == e.kind = "Error" /\ Query("String", e, Nil, String(e))
DoSafeString == e.kind = "Error" /\ Query("SafeString", e, Nil, SafeString(e))

\* The tag getters.
DoIsTagged ==
    /\ e.kind = "Error"
    /\ \E tag \in TagNames : Query("IsTagged", e, tag, IsTagged(heap, e, tag))
DoGetTagStr ==
    /\ e.kind = "Error"
    /\ \E tag \in TagNames : Query("GetTagStr", e, tag, GetTagStr(heap, e, tag))
DoGetTagInt ==
    /\ e.kind = "Error"
    /\ \E tag \in TagNames : Query("GetTagInt", e, tag, GetTagInt(heap, e, tag))

\* The entries of an exclusion list, and the lists the client passes.
ExceptEntries == {t, ConfigurationError, e}
ExceptLists ==
    {<<>>} \cup {<<x>> : x \in ExceptEntries}
           \cup {<<x, y>> : x \in ExceptEntries, y \in ExceptEntries}

\* A call on the error e that writes the calls out, in that order.
OutputCall(op, except, out) ==
    /\ MayStep
    /\ e.kind = "Error"
    /\ log' = log \o out
    /\ mark' = Len(log)
    /\ steps' = steps + 1
    /\ last' = [op |-> op, recv |-> e, arg |-> except, ret |-> Nil, was |-> heap]
    /\ UNCHANGED <<threads, t, e, c, heap, clock, PrintUnsafeErrors, panicked, born>>

DoToLog == \E x \in ExceptLists : OutputCall("ToLog", x, ToLog(e, x))
DoForceLog == \E x \in ExceptLists : OutputCall("ForceLog", x, ForceLog(e, x))
DoToRequest == OutputCall("ToRequest", <<>>, ToRequest(e, PrintUnsafeErrors))
\* ToRequest(r, x) for a foreign error, nil or the error the client holds.
DoPkgToRequest ==
    \E x \in Foreigns \cup {Nil, e} :
        LET call == PkgToRequest(x, CallerStack, clock, PrintUnsafeErrors)
        IN  /\ MayStep
            /\ log' = log \o call.out
            /\ mark' = Len(log)
            /\ steps' = steps + 1
            /\ last' = [op |-> "ToRequest()", recv |-> Nil, arg |-> x,
                        ret |-> call.ret, was |-> heap]
            /\ UNCHANGED <<threads, t, e, c, heap, clock, PrintUnsafeErrors,
                           panicked, born>>

DoToRequestAndLog ==
    \E x \in ExceptLists :
        OutputCall("ToRequestAndLog", x, ToRequestAndLog(e, x, PrintUnsafeErrors))
DoToRequestAndForceLog ==
    \E x \in ExceptLists :
        OutputCall("ToRequestAndForceLog", x,
                   ToRequestAndForceLog(e, x, PrintUnsafeErrors))

Next ==
    \/ DoNew \/ DoTemplateTrack \/ DoTemplateUntrack \/ DoTemplateTrace
    \/ DoTemplateNoTrace \/ DoTemplateSafe \/ DoTemplateMsg \/ DoTemplateArgs
    \/ DoTemplateAPI \/ DoTemplateHTTPCode \/ DoTemplateErrCode
    \/ DoMake \/ DoMakeTraced \/ DoWrap \/ DoWrapError
    \/ DoUntrack \/ DoNoTrace \/ DoSafe \/ DoMsg \/ DoArgs \/ DoCause
    \/ DoStrCause \/ DoExpand \/ DoExpandSafe \/ DoHTTPCode \/ DoErrCode
    \/ DoTag \/ DoTagStr \/ DoTagInt
    \/ Keep \/ Tick \/ SetPrintUnsafeErrors
    \/ DoEquals \/ DoIs \/ DoAreEqual \/ DoInstanceOf \/ DoAPI
    \/ DoError \/ DoString \/ DoSafeString
    \/ DoIsTagged \/ DoGetTagStr \/ DoGetTagInt
    \/ DoToLog \/ DoForceLog \/ DoToRequest \/ DoToRequestAndLog
    \/ DoToRequestAndForceLog \/ DoPkgToRequest

Spec == Init /\ [][Next]_vars

(***************************************************************************)
(* Goroutines that share one Error.  A method with a value receiver works  *)
(* on a copy of the struct it is called on; the copy's flags refer to the  *)
(* map the original's flags refer to.  A call takes two steps: the call,   *)
(* which copies the receiver, and the body, which reads or writes through  *)
(* the copy and returns.  A panic no goroutine recovers from ends the      *)
(* process, and with it every goroutine, whatever it was doing.            *)
(***************************************************************************)
\* The calls the goroutines make on the shared error.
SharedReads == {"GetID", "GetStackTrace", "IsTagged", "GetTagStr", "GetTagInt",
                "Safe", "Untrack", "API"}
SharedTags == {"Tag", "TagStr", "TagInt"}

\* The errors the goroutines can be handed.
SharedErrors ==
    {Make(tm, CallerStack, 0) :
        tm \in {GenericError, ArgumentError, TemplateSafe(GenericError),
                TemplateAPI(ArgumentError, 400, 42)}}
    \cup {Wrap(x, CallerStack, 0) : x \in Foreigns}

\* What the body of op returns for the copy recv of the receiver.
Body(op, recv, h, printUnsafe) ==
    CASE op = "GetID" -> GetID(recv)
      [] op = "GetStackTrace" -> GetStackTrace(recv)
      [] op = "IsTagged" -> IsTagged(h, recv, "retry")
      [] op = "GetTagStr" -> GetTagStr(h, recv, "retry")
      [] op = "GetTagInt" -> GetTagInt(h, recv, "retry")
      [] op = "Safe" -> Safe(recv)
      [] op = "Untrack" -> Untrack(recv)
      [] op = "API" -> API(recv, printUnsafe)
      [] op \in SharedTags -> Tagged(recv)

\* The value op stores under the tag.
TagValue(op) ==
    CASE op = "Tag" -> TagNil
      [] op = "TagStr" -> TagOfStr("text")
      [] op = "TagInt" -> TagOfInt(7)

ConcInit ==
    /\ t = GenericError
    /\ e \in SharedErrors
    /\ c = Nil
    /\ heap = <<>>
    /\ clock = 0
    /\ PrintUnsafeErrors = FALSE
    /\ panicked = FALSE
    /\ steps = 0
    /\ log = <<>>
    /\ threads = [i \in Threads |-> Idle]
    /\ mark = 0
    /\ born = BornAs(e, "Make", 0)
    /\ last = NoCall

\* Goroutine i calls op on the shared error: the receiver is copied.
ThreadCall(i) ==
    /\ Running
    /\ threads[i].pc = "idle"
    /\ \E op \in SharedReads \cup SharedTags :
           threads' = [threads EXCEPT ![i] = [pc |-> "called", op |-> op,
                                              recv |-> e, ret |-> Nil]]
    /\ UNCHANGED <<t, e, c, heap, clock, PrintUnsafeErrors, panicked, steps, log,
                   mark, born, last>>

\* The body of a call that only reads: it returns its result.
ThreadReturn(i) ==
    /\ Running
    /\ threads[i].pc = "called"
    /\ threads[i].op \in SharedReads
    /\ threads' = [threads EXCEPT
                      ![i].pc = "done",
                      ![i].ret = Body(threads[i].op, threads[i].recv, heap,
                                      PrintUnsafeErrors)]
    /\ UNCHANGED <<t, e, c, heap, clock, PrintUnsafeErrors, panicked, steps, log,
                   mark, born, last>>

\* The body of Tag, TagStr and TagInt: the write to the map panics, or
\* changes the map and the copy is returned.
ThreadTag(i) ==
    /\ Running
    /\ threads[i].pc = "called"
    /\ threads[i].op \in SharedTags
    /\ IF MapAssignPanics(threads[i].recv.flags.tags)
       THEN /\ panicked' = TRUE
            /\ UNCHANGED <<heap, threads>>
       ELSE /\ heap' = MapAssign(heap, threads[i].recv.flags.tags, "retry",
                                 TagValue(threads[i].op))
            /\ threads' = [threads EXCEPT
                              ![i].pc = "done",
                              ![i].ret = Body(threads[i].op, threads[i].recv, heap',
                                              PrintUnsafeErrors)]
            /\ UNCHANGED panicked
    /\ UNCHANGED <<t, e, c, clock, PrintUnsafeErrors, steps, log, mark, born, last>>

ConcNext == \E i \in Threads : ThreadCall(i) \/ ThreadReturn(i) \/ ThreadTag(i)

ConcSpec == ConcInit /\ [][ConcNext]_vars

(***************************************************************************)
(* Vocabulary of the properties.                                           *)
(***************************************************************************)
ErrorMutators == {"Untrack", "NoTrace", "Safe", "Msg", "Args", "Cause", "StrCause",
                  "Expand", "ExpandSafe", "HTTPCode", "ErrCode"}
TagMutators == {"Tag", "TagStr", "TagInt"}
TemplateMutators == {"Template.Track", "Template.Untrack", "Template.Trace",
                     "Template.NoTrace", "Template.Safe", "Template.Msg",
                     "Template.Args", "Template.API", "Template.HTTPCode",
                     "Template.ErrCode"}
Makers == {"Make", "MakeTraced"}

\* What a caller can observe of the value v while the heap is h: its
\* fields, with the tags it finds through the map the flags refer to.
Observe(v, h) ==
    IF v.kind \in {"Error", "Template"}
    THEN [value |-> v,
          tags |-> IF v.flags.tags = NilMap THEN <<>> ELSE h[v.flags.tags]]
    ELSE [value |-> v, tags |-> <<>>]

C2_MutatorReturnsAndKeepsReceiver ==
    last.op \in ErrorMutators \cup TagMutators \cup TemplateMutators =>
        /\ ~panicked
        /\ last.ret.kind = last.recv.kind
        /\ Observe(last.recv, heap) = Observe(last.recv, last.was)
        /\ Observe(c, heap) = Observe(c, last.was)

\* The error err with the message of every unsafe node of its cause chain
\* replaced by another text.
RECURSIVE Redact(_)
Redact(err) ==
    IF err.kind # "Error" THEN err
    ELSE [err EXCEPT
            !.content.message = IF err.flags.isSafe THEN @ ELSE <<"(redacted)">>,
            !.content.cause = Redact(@)]

\* C3: while PrintUnsafeErrors is false, the message API() returns is the
\* one it returns for the error that differs only in the message texts of
\* its unsafe nodes.
C3_UnsafeTextNotDisclosed ==
    /\ (last.op = "API" /\ ~PrintUnsafeErrors) =>
           last.ret.Message = API(Redact(last.recv), FALSE).Message
    /\ \A v \in {e, c} :
           v.kind = "Error" =>
               API(v, FALSE).Message = API(Redact(v), FALSE).Message

\* C3 witness: API() was called, with the switch off, on a safe error whose
\* cause is unsafe and has a message of its own.
C3_Witness ==
    /\ last.op = "API"
    /\ ~PrintUnsafeErrors
    /\ last.recv.flags.isSafe
    /\ last.recv.content.cause.kind = "Error"
    /\ ~last.recv.content.cause.flags.isSafe
    /\ last.recv.content.cause.content.message # <<>>
    /\ Redact(last.recv) # last.recv

\* C4: Msg returns an Error that is not safe, whatever the receiver was;
\* Args returns an Error as safe as its receiver.
C4_MsgClearsSafeArgsKeepsIt ==
    /\ last.op = "Msg" => ~last.ret.flags.isSafe
    /\ last.op = "Args" => last.ret.flags.isSafe = last.recv.flags.isSafe

\* C4 witness: Msg was called on a safe error.
C4_Witness ==
    /\ last.op = "Msg"
    /\ last.recv.flags.isSafe
    /\ e = last.ret

\* C5 (as claimed): Make and MakeTraced give an error made from an
\* untracked template an empty id and an empty stack trace, and an error
\* made from a template with trace = false an empty stack trace.
C5_TraceOnlyAsFlagsAllow ==
    last.op \in Makers =>
        /\ ~last.recv.flags.track =>
               GetID(last.ret) = <<>> /\ GetStackTrace(last.ret) = <<>>
        /\ ~last.recv.flags.trace => GetStackTrace(last.ret) = <<>>

\* C6: no Template mutator and no Error mutator changes the ErrorType, and
\* Make and MakeTraced hand the template's ErrorType to the Error: the error
\* the client holds has the type it was materialized with, which for a made
\* error is the type of the template.
C6_TypeFixed ==
    /\ last.op \in TemplateMutators =>
           TemplateGetType(last.ret) = TemplateGetType(last.recv)
    /\ last.op \in Makers => GetType(last.ret) = TemplateGetType(last.recv)
    /\ last.op \in ErrorMutators => GetType(last.ret) = GetType(last.recv)
    /\ e.kind = "Error" => GetType(e) = born.errType
    /\ (e.kind = "Error" /\ born.via \in Makers) => GetType(e) = TemplateGetType(t)

\* C6 witness: a template whose message had been changed was made into an
\* error, and ExpandSafe was called on that error.
C6_Witness ==
    /\ last.op = "ExpandSafe"
    /\ born.via \in Makers
    /\ t.content.message # t.errType
    /\ last.ret.content.message # last.recv.content.message

\* C7: the comparisons of non-absent values look at the resolved ErrorTypes
\* only: AreEqual is reflexive and symmetric and agrees with Equals, no
\* mutator changes a comparison's result, foreign errors of one concrete
\* type are equal, and Wrap(x) is equal to x.
C7_EqualityByTypeOnly ==
    /\ \A x \in Operands \ {Nil}, y \in Operands \ {Nil} :
           /\ AreEqual(x, x)
           /\ AreEqual(x, y) = AreEqual(y, x)
           /\ x.kind = "Error" => Equals(x, y) = AreEqual(x, y)
           /\ (x.kind = "foreign" /\ y.kind = "foreign" /\ x.gotype = y.gotype) =>
                  AreEqual(x, y)
    /\ last.op \in ErrorMutators =>
           /\ \A x \in Operands \ {Nil} :
                  /\ AreEqual(last.ret, x) = AreEqual(last.recv, x)
                  /\ Equals(last.ret, x) = Equals(last.recv, x)
           /\ \A tm \in Templates :
                  /\ Is(last.ret, tm) = Is(last.recv, tm)
                  /\ InstanceOf(last.ret, tm) = InstanceOf(last.recv, tm)
    /\ (last.op = "Wrap" /\ last.arg.kind # "nil") =>
           AreEqual(last.ret, last.arg) /\ Equals(last.ret, last.arg)
    /\ (last.op \in {"AreEqual", "Equals"} /\ last.recv.kind # "nil"
            /\ last.arg.kind # "nil") =>
           last.ret = (getErrorType(last.recv) = getErrorType(last.arg))
    /\ (last.op = "InstanceOf" /\ last.recv.kind # "nil") =>
           last.ret = (getErrorType(last.recv) = last.arg.errType)
    /\ last.op = "Is" => last.ret = (last.recv.errType = last.arg.errType)

\* C7 witness: AreEqual found a wrapped foreign error equal to a foreign
\* error of the same concrete type that has another message.
C7_Witness ==
    /\ last.op = "AreEqual"
    /\ last.recv.kind = "Error"
    /\ last.arg.kind = "foreign"
    /\ last.recv.content.message # last.arg.text
    /\ last.ret = TRUE

\* C8: AreEqual(nil, nil) is true; AreEqual is false when exactly one side
\* is absent; Equals(nil) is false; InstanceOf(nil, t) is false; and each of
\* these calls returns.
C8_NilHandled ==
    /\ last.op = "AreEqual" =>
           /\ (last.recv.kind = "nil" /\ last.arg.kind = "nil") => last.ret = TRUE
           /\ (last.recv.kind = "nil") # (last.arg.kind = "nil") => last.ret = FALSE
    /\ (last.op = "Equals" /\ last.arg.kind = "nil") => last.ret = FALSE
    /\ (last.op = "InstanceOf" /\ last.recv.kind = "nil") => last.ret = FALSE
    /\ last.op \in {"AreEqual", "Equals", "InstanceOf"} =>
           last.ret \in BOOLEAN /\ ~panicked

\* C8 witness: AreEqual was called with an absent first and a materialized
\* second argument.
C8_Witness ==
    /\ last.op = "AreEqual"
    /\ last.recv.kind = "nil"
    /\ last.arg.kind = "Error"
    /\ last.ret = FALSE

\* C9: Wrap(nil) is absent; Wrap of an Error is that very Error, whenever
\* it is called; so wrapping a wrapped foreign error again, later, gives the
\* value of the first Wrap, with its id.
C9_WrapIdempotent ==
    /\ last.op = "Wrap" =>
           /\ last.arg.kind = "nil" => last.ret = Nil
           /\ last.arg.kind = "Error" => last.ret = last.arg
    /\ \A now \in 0..MaxSteps :
           /\ Wrap(Nil, CallerStack, now) = Nil
           /\ e.kind = "Error" => Wrap(e, CallerStack, now) = e
           /\ \A x \in Foreigns :
                  Wrap(Wrap(x, CallerStack, clock), CallerStack, now)
                      = Wrap(x, CallerStack, clock)

\* C9 witness: a foreign error was wrapped, time passed, and Wrap was called
\* on the result.
C9_Witness ==
    /\ last.op = "Wrap"
    /\ last.arg.kind = "Error"
    /\ born.via = "Wrap"
    /\ clock > born.at
    /\ GetID(e) = born.trace.id

\* C10 (as claimed): Wrap of a foreign error returns an Error with a
\* non-empty id that is untracked, traced and not safe.
C10_WrapUntracked ==
    (last.op = "Wrap" /\ last.arg.kind = "foreign") =>
        /\ GetID(last.ret) # <<>>
        /\ ~last.ret.flags.track
        /\ last.ret.flags.trace
        /\ ~last.ret.flags.isSafe

\* C10 (amended): Wrap of a foreign error returns an Error with a non-empty
\* id that is tracked (track = true), traced (trace = true) and not safe.
C10_WrapTrackedTraced ==
    (last.op = "Wrap" /\ last.arg.kind = "foreign") =>
        /\ last.ret.kind = "Error"
        /\ GetID(last.ret) # <<>>
        /\ last.ret.flags.track
        /\ last.ret.flags.trace
        /\ ~last.ret.flags.isSafe

\* C10 witness: Wrap was called on a foreign error.
C10_Witness ==
    /\ last.op = "Wrap"
    /\ last.arg.kind = "foreign"
    /\ e = last.ret
    /\ e.kind = "Error"

\* The text " [ID <id>]" for an error that is tracked and has an id, the
\* empty text for any other error.
IdSuffix(err) ==
    IF err.flags.track /\ GetID(err) # <<>> THEN <<" [ID ">> \o GetID(err) \o <<"]">>
    ELSE <<>>

\* C11 (as claimed): API() returns the error's httpCode and errCode, and as
\* message the Error() text when PrintUnsafeErrors is on, else SafeString()
\* when the error is safe, else the placeholder text; the id suffix follows
\* the first two texts only, never the placeholder.
C11_PlaceholderWithoutId ==
    last.op = "API" =>
        /\ last.ret.ResponseCode = last.recv.api.httpCode
        /\ last.ret.ErrorCode = last.recv.api.errCode
        /\ last.ret.Message =
               IF PrintUnsafeErrors THEN Error(last.recv) \o IdSuffix(last.recv)
               ELSE IF last.recv.flags.isSafe
                    THEN SafeString(last.recv) \o IdSuffix(last.recv)
                    ELSE <<"An error occured">>

\* C11 (amended): API() returns the error's httpCode and errCode, and as
\* message the Error() text when PrintUnsafeErrors is on, else SafeString()
\* when the error is safe, else the placeholder text; in all three cases the
\* id suffix follows when the error is tracked and its id is not empty.
C11_IdInAllThreeCases ==
    last.op = "API" =>
        /\ last.ret.ResponseCode = last.recv.api.httpCode
        /\ last.ret.ErrorCode = last.recv.api.errCode
        /\ last.ret.Message =
               (IF PrintUnsafeErrors THEN Error(last.recv)
                ELSE IF last.recv.flags.isSafe THEN SafeString(last.recv)
                     ELSE <<"An error occured">>)
               \o IdSuffix(last.recv)

\* C11 witness: API() was called, with the switch off, on a tracked error
\* that is not safe, and the message is the placeholder followed by the id.
C11_Witness ==
    /\ last.op = "API"
    /\ ~PrintUnsafeErrors
    /\ ~last.recv.flags.isSafe
    /\ last.recv.flags.track
    /\ last.recv.content.message # <<"An error occured">>
    /\ last.ret.Message = <<"An error occured", " [ID ">> \o GetID(last.recv) \o <<"]">>

\* The own text of a node: its message, or its ErrorType when that is empty.
OwnText(err) ==
    IF err.content.message = <<>> THEN err.errType ELSE err.content.message

\* SafeString() of every node of the cause chain of err is as C12 says.
RECURSIVE SafeByNode(_)
SafeByNode(err) ==
    /\ SafeString(err) =
           IF ~err.flags.isSafe THEN <<>>
           ELSE IF err.content.cause.kind # "nil"
                   /\ SafeString(err.content.cause) # <<>>
                THEN OwnText(err) \o <<": ">> \o SafeString(err.content.cause)
                ELSE OwnText(err)
    /\ err.content.cause.kind # "nil" => SafeByNode(err.content.cause)

\* C12: SafeString() is empty for a node that is not safe; for a safe node
\* it is the node's own text, followed by ": " and the cause's SafeString()
\* only when there is a cause whose SafeString() is not empty.
C12_SafeStringByNode ==
    /\ \A v \in {e, c} : v.kind = "Error" => SafeByNode(v)
    /\ last.op = "SafeString" =>
           /\ SafeByNode(last.recv)
           /\ last.ret = SafeString(last.recv)
           /\ (last.recv.flags.isSafe /\ last.recv.content.cause.kind = "Error"
                   /\ ~last.recv.content.cause.flags.isSafe) =>
                  last.ret = OwnText(last.recv)

\* C12 witness: SafeString() was called on a safe error whose cause is not
\* safe, and returned the error's own text.
C12_Witness ==
    /\ last.op = "SafeString"
    /\ last.recv.flags.isSafe
    /\ last.recv.content.cause.kind = "Error"
    /\ ~last.recv.content.cause.flags.isSafe
    /\ Error(last.recv.content.cause) # <<>>
    /\ last.ret = OwnText(last.recv)
    /\ last.ret # <<>>

\* Error() of every node of the cause chain of err is the node's own text,
\* followed by ": " and the cause's Error() whenever there is a cause.
RECURSIVE ColonWheneverCause(_)
ColonWheneverCause(err) ==
    /\ Error(err) =
           IF err.content.cause.kind # "nil"
           THEN OwnText(err) \o <<": ">> \o Error(err.content.cause)
           ELSE OwnText(err)
    /\ err.content.cause.kind # "nil" => ColonWheneverCause(err.content.cause)

\* The same, with ": " and the cause's Error() only when that text is not
\* empty.
RECURSIVE ColonBeforeText(_)
ColonBeforeText(err) ==
    /\ Error(err) =
           IF err.content.cause.kind # "nil" /\ Error(err.content.cause) # <<>>
           THEN OwnText(err) \o <<": ">> \o Error(err.content.cause)
           ELSE OwnText(err)
    /\ err.content.cause.kind # "nil" => ColonBeforeText(err.content.cause)

\* C13 (as claimed): Error() and String() return the same text: the node's
\* message, or its ErrorType when the message is empty, followed by ": " and
\* the cause's Error() text when a cause is present, over the whole chain
\* and whatever the safe flags are.
C13_ColonWhenCausePresent ==
    /\ \A v \in {e, c} :
           v.kind = "Error" => Error(v) = String(v) /\ ColonWheneverCause(v)
    /\ last.op \in {"Error", "String"} =>
           last.ret = Error(last.recv) /\ ColonWheneverCause(last.recv)

\* C13 (amended): Error() and String() return the same text: the node's
\* message, or its ErrorType when the message is empty, followed by ": " and
\* the cause's Error() text when a cause is present and that text is not
\* empty, over the whole chain and whatever the safe flags are.
C13_ColonWhenCauseHasText ==
    /\ \A v \in {e, c} :
           v.kind = "Error" => Error(v) = String(v) /\ ColonBeforeText(v)
    /\ last.op \in {"Error", "String"} =>
           /\ last.ret = Error(last.recv)
           /\ last.ret = String(last.recv)
           /\ ColonBeforeText(last.recv)

\* C13 witness: the error has a message and a cause whose Error() text is
\* empty (an error made from New("")), and its text is the message alone.
C13_Witness ==
    /\ e.kind = "Error"
    /\ e.content.cause.kind = "Error"
    /\ Error(e.content.cause) = <<>>
    /\ e.content.message # <<>>
    /\ Error(e) = e.content.message

\* The calls the last operation made, and the Logger calls and the calls of
\* the RequestAborter among the calls out.
Emitted == SubSeq(log, mark + 1, Len(log))
LoggerCalls(out) == SelectSeq(out, LAMBDA x : x.call = "Logger")
AbortCalls(out) == SelectSeq(out, LAMBDA x : x.call = "AbortWithStatusJSON")
\* The exclusion list has an entry of the ErrorType of err.
Excluded(err, except) ==
    \E i \in 1..Len(except) : except[i].errType = err.errType

\* C14: ToLog on an untracked Error makes no Logger call; ForceLog with an
\* empty exclusion list makes at least one Logger call on every materialized
\* Error, tracked or not.
C14_ToLogSilentForceLogEmits ==
    /\ (last.op = "ToLog" /\ ~last.recv.flags.track) => Emitted = <<>>
    /\ (last.op = "ForceLog" /\ last.arg = <<>>) =>
           Len(LoggerCalls(Emitted)) >= 1
    /\ \A v \in {e, c} :
           v.kind = "Error" =>
               /\ Len(LoggerCalls(ForceLog(v, <<>>))) >= 1
               /\ ~v.flags.track => ToLog(v, <<>>) = <<>>

\* C14 witness: ForceLog() was called on an untracked error and Logger was
\* called.
C14_Witness ==
    /\ last.op = "ForceLog"
    /\ last.arg = <<>>
    /\ ~last.recv.flags.track
    /\ Len(LoggerCalls(Emitted)) >= 1
    /\ ToLog(last.recv, <<>>) = <<>>

\* C15: ToLog, ForceLog, ToRequestAndLog and ToRequestAndForceLog make no
\* Logger call when some entry of the exclusion list, at whatever position,
\* has the ErrorType of the receiver.
C15_ExcludedTypeNotLogged ==
    (/\ last.op \in {"ToLog", "ForceLog", "ToRequestAndLog", "ToRequestAndForceLog"}
     /\ Excluded(last.recv, last.arg)) =>
        LoggerCalls(Emitted) = <<>>

\* C15 witness: ForceLog was called on an error it would log, with a list
\* whose first entry is of another type and whose second entry matches.
C15_Witness ==
    /\ last.op = "ForceLog"
    /\ Len(last.arg) = 2
    /\ last.arg[1].errType # last.recv.errType
    /\ last.arg[2].errType = last.recv.errType
    /\ ForceLog(last.recv, <<>>) # <<>>
    /\ Emitted = <<>>

\* C16: ToRequest, ToRequestAndLog and ToRequestAndForceLog call the
\* RequestAborter exactly once, with the response code and the APIError of
\* API(), after every Logger call of the invocation, and also when nothing
\* is logged.
C16_AbortOnceAfterLog ==
    last.op \in {"ToRequest", "ToRequestAndLog", "ToRequestAndForceLog"} =>
        /\ Len(AbortCalls(Emitted)) = 1
        /\ Emitted[Len(Emitted)] =
               AbortWithStatusJSON(API(last.recv, PrintUnsafeErrors).ResponseCode,
                                   API(last.recv, PrintUnsafeErrors))
        /\ Emitted[Len(Emitted)].code = last.recv.api.httpCode
        /\ \A i \in 1..(Len(Emitted) - 1) : Emitted[i].call = "Logger"

\* C16 witness: ToRequestAndLog was called on a tracked error, Logger was
\* called, and the RequestAborter was called after it.
C16_Witness ==
    /\ last.op = "ToRequestAndLog"
    /\ last.recv.flags.track
    /\ Len(LoggerCalls(Emitted)) >= 1
    /\ Emitted[Len(Emitted)].call = "AbortWithStatusJSON"

\* The accessors of an Error.
Accessors == {"IsTagged", "GetTagStr", "GetTagInt", "Error", "String", "SafeString",
              "API", "Equals", "Is"}

\* C17 (as claimed): no operation fails: every mutator of a Template built
\* from New and every mutator and accessor of an Error got from Make,
\* MakeTraced or Wrap, with Tag, TagStr, TagInt and the tag getters, returns
\* a value, and no call ends in a panic.
C17_NoOperationFails ==
    /\ panicked = FALSE
    /\ last.op \in TemplateMutators => last.ret.kind = "Template"
    /\ last.op \in ErrorMutators \cup TagMutators => last.ret.kind = "Error"
    /\ last.op \in Accessors => last.ret # Nil

\* Two goroutines are in bodies that use the same map, one of them to
\* write it: a data race.
Race ==
    \E i \in Threads, j \in Threads :
        /\ i # j
        /\ threads[i].pc = "called" /\ threads[j].pc = "called"
        /\ threads[i].op \in SharedTags
        /\ threads[j].op \in SharedTags \cup {"IsTagged", "GetTagStr", "GetTagInt"}
        /\ threads[i].recv.flags.tags # NilMap
        /\ threads[i].recv.flags.tags = threads[j].recv.flags.tags

\* The call goroutine i made returns when i runs alone.
ReturnsAlone(i) ==
    threads[i].op \in SharedTags => ~MapAssignPanics(threads[i].recv.flags.tags)

\* C18 (as claimed): goroutines that call mutators and accessors, Tag,
\* TagStr, TagInt and the tag getters among them, on one shared Error write
\* no map the error refers to, are never in a data race, and each gets the
\* result its call gives when it runs alone: its call is not cut short by
\* the end of the process when it would return, and what it returns is what
\* the call returns for the error as it was constructed.
C18_SharedWithoutLocking ==
    /\ heap = <<>>
    /\ ~Race
    /\ \A i \in Threads :
           /\ (threads[i].pc = "called" /\ panicked) => ~ReturnsAlone(i)
           /\ threads[i].pc = "done" =>
                  threads[i].ret = Body(threads[i].op, e, <<>>, FALSE)

C20_TemplateTraceImpliesTrack ==
    /\ t.flags.trace => t.flags.track
    /\ last.op = "New" => last.ret.flags.track /\ ~last.ret.flags.trace
    /\ last.op \in {"Template.Untrack", "Template.API"} =>
           ~last.ret.flags.track /\ ~last.ret.flags.trace
    /\ last.op = "Template.Trace" => last.ret.flags.track /\ last.ret.flags.trace
    /\ last.op = "Template.Track" =>
           last.ret.flags.track /\ last.ret.flags.trace = last.recv.flags.trace
    /\ last.op = "Template.NoTrace" =>
           ~last.ret.flags.trace /\ last.ret.flags.track = last.recv.flags.track
    /\ last.op \in {"Template.Safe", "Template.Msg", "Template.Args",
                     "Template.HTTPCode", "Template.ErrCode"} =>
           /\ last.ret.flags.track = last.recv.flags.track
           /\ last.ret.flags.trace = last.recv.flags.trace

\* C20 witness: Untrack was called on a traced template, and the template
\* the client holds is neither tracked nor traced.
C20_Witness ==
    /\ last.op = "Template.Untrack"
    /\ last.recv.flags.trace
    /\ t = last.ret
    /\ ~t.flags.track
    /\ ~t.flags.trace

\* C21: t.API(h, e) is the Template t.HTTPCode(h).ErrCode(e).Safe().Untrack():
\* the codes are h and e, it is safe, untracked and untraced, type and
\* content are those of t; and API() of an Error made from it returns h, e
\* and the error's text, without an id suffix.
C21_APIShortcut ==
    /\ \A h \in HTTPCodes \cup {defaultHTTPCode}, ec \in ErrCodes \cup {defaultErrCode} :
           /\ TemplateAPI(t, h, ec) =
                  TemplateUntrack(TemplateSafe(TemplateErrCode(TemplateHTTPCode(t, h), ec)))
           /\ \A pu \in BOOLEAN :
                  API(Make(TemplateAPI(t, h, ec), CallerStack, clock), pu) =
                      [ResponseCode |-> h, ErrorCode |-> ec, Message |-> OwnText(t)]
    /\ last.op = "Template.API" =>
           /\ last.ret.api = [httpCode |-> last.arg[1], errCode |-> last.arg[2]]
           /\ last.ret.flags.isSafe
           /\ ~last.ret.flags.track /\ ~last.ret.flags.trace
           /\ last.ret.errType = last.recv.errType
           /\ last.ret.content = last.recv.content
    /\ (last.op = "API" /\ born.via \in Makers /\ last.recv = Make(t, CallerStack, born.at)
            /\ t = TemplateAPI(t, t.api.httpCode, t.api.errCode)) =>
           last.ret = [ResponseCode |-> t.api.httpCode, ErrorCode |-> t.api.errCode,
                       Message |-> OwnText(t)]

\* C21 witness: API(400, 42) was called on a tracked and traced template,
\* an error was made from the result, and API() was called on that error.
C21_Witness ==
    /\ last.op = "API"
    /\ born.via = "Make"
    /\ last.recv = Make(t, CallerStack, born.at)
    /\ t = TemplateAPI(GenericError, 400, 42)
    /\ last.ret.Message = OwnText(t)

\* What Expand and ExpandSafe keep of their receiver: the receiver itself as
\* cause, and its ErrorType, id, stack trace, API codes, tracking flags.
ExpandKeeps(ret, recv) ==
    /\ ret.content.cause = recv
    /\ ret.errType = recv.errType
    /\ ret.trace = recv.trace
    /\ ret.api = recv.api
    /\ ret.flags = [recv.flags EXCEPT !.isSafe = ret.flags.isSafe]

\* C22 (as claimed): e.Expand(msg) has the message msg, e itself as cause,
\* the type, id, stack trace and API codes of e and is not safe;
\* e.ExpandSafe(msg) is the same but safe.  Error() of either is
\* msg + ": " + e.Error(), SafeString() of the first is empty, and
\* SafeString() of the second has the text of e exactly when e is safe.
C22_ExpandStoresMsg ==
    (last.op \in {"Expand", "ExpandSafe"} /\ last.arg[2] = <<>>) =>
        /\ ExpandKeeps(last.ret, last.recv)
        /\ last.ret.content.message = last.arg[1]
        /\ last.ret.flags.isSafe = (last.op = "ExpandSafe")
        /\ Error(last.ret) = last.arg[1] \o <<": ">> \o Error(last.recv)
        /\ last.op = "Expand" => SafeString(last.ret) = <<>>
        /\ last.op = "ExpandSafe" =>
               SafeString(last.ret) =
                   IF last.recv.flags.isSafe
                   THEN last.arg[1] \o <<": ">> \o SafeString(last.recv)
                   ELSE last.arg[1]

\* C22 (amended): e.Expand(msg, args...) has the message
\* fmt.Sprintf(msg, args...), also when there are no args, e itself as
\* cause, the type, id, stack trace and API codes of e and is not safe;
\* e.ExpandSafe is the same but safe.  Error() of either is the own text
\* (the message, or the ErrorType when the message is empty), followed by
\* ": " and e.Error() when that is not empty; SafeString() of the first is
\* empty, and SafeString() of the second is the own text, followed by ": "
\* and e.SafeString() when that is not empty.
C22_ExpandFormatsMsg ==
    last.op \in {"Expand", "ExpandSafe"} =>
        /\ ExpandKeeps(last.ret, last.recv)
        /\ last.ret.content.message = Sprintf(last.arg[1], last.arg[2])
        /\ last.ret.flags.isSafe = (last.op = "ExpandSafe")
        /\ Error(last.ret) =
               OwnText(last.ret) \o (IF Error(last.recv) # <<>>
                                     THEN <<": ">> \o Error(last.recv) ELSE <<>>)
        /\ last.op = "Expand" => SafeString(last.ret) = <<>>
        /\ last.op = "ExpandSafe" =>
               SafeString(last.ret) =
                   OwnText(last.ret) \o (IF SafeString(last.recv) # <<>>
                                         THEN <<": ">> \o SafeString(last.recv)
                                         ELSE <<>>)

\* C22 witness: Expand was called with a format that has a verb and with no
\* args, and the message of the result is not that format.
C22_Witness ==
    /\ last.op = "Expand"
    /\ last.arg = <<<<"value ", "%v">>, <<>>>>
    /\ e = last.ret
    /\ e.content.message = <<"value ", "%!", "v(MISSING)">>
    /\ e.content.cause = last.recv

\* C23 (as claimed): two distinct calls of Make, MakeTraced or Wrap of a
\* foreign error return errors with different ids, also when both calls
\* read the same clock value: the error a call returns has another id than
\* the error the client kept from an earlier call.
C23_IdsUnique ==
    (/\ last.op \in Makers \/ (last.op = "Wrap" /\ last.arg.kind = "foreign")
     /\ c.kind = "Error") =>
        GetID(last.ret) # GetID(c)

\* The tokens of part are in whole, one after the other without a gap.
Contains(whole, part) ==
    \E i \in 0..(Len(whole) - Len(part)) : SubSeq(whole, i + 1, i + Len(part)) = part

\* C24 (as claimed): with PrintUnsafeErrors off, the message of API() of a
\* tracked error with an id that is not safe contains the id and does not
\* contain the error's message.
C24_IdButNotMessage ==
    (/\ last.op = "API"
     /\ ~PrintUnsafeErrors
     /\ last.recv.flags.track
     /\ GetID(last.recv) # <<>>
     /\ ~last.recv.flags.isSafe) =>
        /\ Contains(last.ret.Message, GetID(last.recv))
        /\ ~Contains(last.ret.Message, last.recv.content.message)

\* C24 (amended): with PrintUnsafeErrors off, the message of API() of a
\* tracked error with an id that is not safe is the placeholder text
\* followed by " [ID <id>]": it contains the id, and it is the same
\* whatever the message of the error is, so it has the error's message in
\* it only when the placeholder with the id has.
C24_PlaceholderAndId ==
    (/\ last.op = "API"
     /\ ~PrintUnsafeErrors
     /\ last.recv.flags.track
     /\ GetID(last.recv) # <<>>
     /\ ~last.recv.flags.isSafe) =>
        /\ last.ret.Message = <<"An error occured", " [ID ">> \o GetID(last.recv) \o <<"]">>
        /\ Contains(last.ret.Message, GetID(last.recv))
        /\ last.ret.Message = API(Redact(last.recv), FALSE).Message
        /\ Contains(last.ret.Message, last.recv.content.message) =>
               Contains(<<"An error occured", " [ID ">> \o GetID(last.recv) \o <<"]">>,
                        last.recv.content.message)

\* C24 witness: API() was called, with the switch off, on a tracked error
\* that is not safe and whose message is not in what API() returns.
C24_Witness ==
    /\ last.op = "API"
    /\ ~PrintUnsafeErrors
    /\ last.recv.flags.track
    /\ ~last.recv.flags.isSafe
    /\ last.recv.content.message = <<"secret">>
    /\ Contains(last.ret.Message, GetID(last.recv))
    /\ ~Contains(last.ret.Message, <<"secret">>)

\* The lines toLog writes.
IsIdLine(x) == x.call = "Logger" /\ x.format[1] \in {"[ERR] ", "[ERR "}
IsStackLine(x) == x.call = "Logger" /\ x.format[1] \in {"[STACK] ", "[STACK "}

\* C25: a call of ToLog or ForceLog makes at most two Logger calls: the line
\* with id and message, when the id is not empty, and after it the line with
\* the stack trace, only when the trace flag is set and the stack trace is
\* not empty; an error whose trace flag NoTrace() cleared gets no stack
\* line, though its GetStackTrace() is not empty.
C25_IdLineThenStackLine ==
    last.op \in {"ToLog", "ForceLog"} =>
        /\ Len(Emitted) <= 2
        /\ \A i \in 1..Len(Emitted) : IsIdLine(Emitted[i]) \/ IsStackLine(Emitted[i])
        /\ \A i \in 1..Len(Emitted) :
               /\ IsIdLine(Emitted[i]) => i = 1 /\ GetID(last.recv) # <<>>
               /\ IsStackLine(Emitted[i]) =>
                      /\ last.recv.flags.trace
                      /\ GetStackTrace(last.recv) # <<>>
                      /\ Emitted[i].args[Len(Emitted[i].args)] = GetStackTrace(last.recv)
                      /\ GetID(last.recv) # <<>> => (i = 2 /\ IsIdLine(Emitted[1]))
        /\ (last.op = "ForceLog" /\ ~Excluded(last.recv, last.arg)) =>
               /\ GetID(last.recv) # <<>> =>
                      (Len(Emitted) >= 1 /\ IsIdLine(Emitted[1]))
               /\ (last.recv.flags.trace /\ GetStackTrace(last.recv) # <<>>) =>
                      (Len(Emitted) >= 1 /\ IsStackLine(Emitted[Len(Emitted)]))

\* C25 witness: ForceLog was called on an error made from a traced template
\* after NoTrace() had cleared its trace flag: it has a stack trace, and
\* the one Logger call made is the line with id and message.
C25_Witness ==
    /\ last.op = "ForceLog"
    /\ last.arg = <<>>
    /\ born.via \in Makers
    /\ t.flags.trace
    /\ ~last.recv.flags.trace
    /\ GetStackTrace(last.recv) # <<>>
    /\ Len(Emitted) = 1
    /\ IsIdLine(Emitted[1])

\* C26: the function ToRequest(r, err) returns false and does not call the
\* RequestAborter when err is absent; else it returns true and calls the
\* RequestAborter once, with Wrap(err).API(), which for an Error is the
\* API() of err itself, with the id it has.
C26_PkgToRequest ==
    last.op = "ToRequest()" =>
        /\ last.arg.kind = "nil" => (last.ret = FALSE /\ Emitted = <<>>)
        /\ last.arg.kind # "nil" =>
               /\ last.ret = TRUE
               /\ Len(Emitted) = 1
               /\ Emitted[1].call = "AbortWithStatusJSON"
               /\ Emitted[1].obj =
                      API(Wrap(last.arg, <<"ToRequest">> \o CallerStack, clock),
                          PrintUnsafeErrors)
               /\ Emitted[1].code = Emitted[1].obj.ResponseCode
        /\ last.arg.kind = "Error" =>
               Emitted[1].obj = API(last.arg, PrintUnsafeErrors)

\* C26 witness: ToRequest(r, nil) was called after an earlier call had
\* written to the RequestAborter, returned false and wrote nothing.
C26_Witness ==
    /\ last.op = "ToRequest()"
    /\ last.arg.kind = "nil"
    /\ last.ret = FALSE
    /\ Len(log) > 0
    /\ Emitted = <<>>

\* What New gives every template: no cause, the flags track = true,
\* trace = false, isSafe = false, no tags, and the default API data.
FreshTemplate(tm) ==
    /\ tm.kind = "Template"
    /\ tm.content.cause = Nil
    /\ tm.flags = [track |-> TRUE, trace |-> FALSE, isSafe |-> FALSE, tags |-> NilMap]
    /\ tm.api = [httpCode |-> 500, errCode |-> 0]

\* C27 (as claimed): New(type) returns a Template of that ErrorType with an
\* empty message, no cause, track = true, trace = false, isSafe = false and
\* the API data (500, 0).
C27_NewEmptyMessage ==
    (last.op = "New" /\ last.arg[2] = <<>>) =>
        /\ FreshTemplate(last.ret)
        /\ last.ret.errType = last.arg[1]
        /\ last.ret.content.message = <<>>

\* C27 (amended): New(type, args...) returns a Template of the ErrorType
\* type whose message is type too, formatted with the args when there are
\* any, with no cause, track = true, trace = false, isSafe = false and the
\* API data (500, 0).
C27_NewMessageIsType ==
    last.op = "New" =>
        /\ FreshTemplate(last.ret)
        /\ last.ret.errType = last.arg[1]
        /\ last.ret.content.message =
               IF last.arg[2] = <<>> THEN last.arg[1]
               ELSE Sprintf(last.arg[1], last.arg[2])

\* C27 witness: New was called with a type that is not empty and without
\* args, and the message of the template is the type.
C27_Witness ==
    /\ last.op = "New"
    /\ last.arg[1] # <<>>
    /\ last.arg[2] = <<>>
    /\ t = last.ret
    /\ t.content.message = t.errType

\* What StrCause keeps of its receiver and makes of its cause.
StrCauseKeeps(ret, recv) ==
    /\ ret.errType = recv.errType
    /\ ret.content.message = recv.content.message
    /\ ret.flags = recv.flags
    /\ ret.api = recv.api
    /\ ret.trace = recv.trace
    /\ ret.content.cause.kind = "Error"
    /\ ret.content.cause.errType = TemplateGetType(GenericError)
    /\ ret.content.cause.content.cause = Nil
    /\ ~ret.content.cause.flags.track
    /\ ~ret.content.cause.flags.trace
    /\ ~ret.content.cause.flags.isSafe

\* C28 (as claimed): e.StrCause(text) is e in type, message, flags, API
\* codes, id and stack trace, with a cause that is a generic Error with the
\* message text, untracked, untraced and not safe; its Error() ends with
\* ": " + text, and its SafeString(), when it is safe, is its own text.
C28_StrCauseEndsWithText ==
    (last.op = "StrCause" /\ last.arg[2] = <<>>) =>
        /\ StrCauseKeeps(last.ret, last.recv)
        /\ last.ret.content.cause.content.message = last.arg[1]
        /\ Error(last.ret) = OwnText(last.ret) \o <<": ">> \o last.arg[1]
        /\ last.ret.flags.isSafe => SafeString(last.ret) = OwnText(last.ret)

\* C28 (amended): e.StrCause(text, args...) is e in type, message, flags,
\* API codes, id and stack trace, with a cause that is a generic Error,
\* untracked, untraced and not safe, whose message is text, formatted with
\* the args when there are any; its Error() ends with ": " and the text of
\* the cause, which is that message, or the type of GenericError when the
\* message is empty; its SafeString(), when it is safe, is its own text.
C28_StrCauseEndsWithCauseText ==
    last.op = "StrCause" =>
        /\ StrCauseKeeps(last.ret, last.recv)
        /\ last.ret.content.cause.content.message =
               IF last.arg[2] = <<>> THEN last.arg[1]
               ELSE Sprintf(last.arg[1], last.arg[2])
        /\ Error(last.ret) =
               OwnText(last.ret) \o <<": ">> \o
               (IF last.ret.content.cause.content.message = <<>>
                THEN TemplateGetType(GenericError)
                ELSE last.ret.content.cause.content.message)
        /\ last.ret.flags.isSafe => SafeString(last.ret) = OwnText(last.ret)

\* C28 witness: StrCause("secret") was called on a safe error.
C28_Witness ==
    /\ last.op = "StrCause"
    /\ last.arg = <<<<"secret">>, <<>>>>
    /\ last.recv.flags.isSafe
    /\ e = last.ret
    /\ Error(e) = OwnText(e) \o <<": ", "secret">>
    /\ SafeString(e) = OwnText(e)

\* The number of Errors on the cause chain of err, err included.
RECURSIVE ChainLength(_)
ChainLength(err) ==
    IF err.kind # "Error" THEN 0 ELSE 1 + ChainLength(err.content.cause)

\* No Error on the cause chain of err is its own cause, near or far: the
\* chain from the cause of a node on is shorter than the chain from the
\* node on.
RECURSIVE Acyclic(_)
Acyclic(err) ==
    err.content.cause.kind = "Error" =>
        /\ err.content.cause # err
        /\ ChainLength(err.content.cause) < ChainLength(err)
        /\ Acyclic(err.content.cause)

Bare(err) == [err EXCEPT !.content.cause = Nil]

\* C30: Cause and StrCause replace the cause of their receiver: the cause
\* of e.Cause(c) is Wrap(c) and the result is what Cause gives for e
\* without the cause it had, so nothing of that cause is in it or in its
\* Error() text; e.Cause(nil) has no cause.
C30_CauseReplaced ==
    /\ last.op = "Cause" =>
           /\ last.ret.content.cause =
                  Wrap(last.arg, <<"Cause">> \o CallerStack, clock)
           /\ last.ret = Cause(Bare(last.recv), last.arg, CallerStack, clock)
           /\ Bare(last.ret) = Bare(last.recv)
           /\ last.arg.kind = "nil" =>
                  (last.ret.content.cause = Nil /\ Error(last.ret) = OwnText(last.ret))
           /\ last.arg.kind = "Error" => last.ret.content.cause = last.arg
           /\ last.arg.kind = "foreign" =>
                  /\ ChainLength(last.ret) = 2
                  /\ Error(last.ret) =
                         OwnText(last.ret) \o <<": ">> \o OwnText(last.ret.content.cause)
    /\ last.op = "StrCause" =>
           /\ last.ret = StrCause(Bare(last.recv), last.arg[1], last.arg[2],
                                   CallerStack, clock)
           /\ Bare(last.ret) = Bare(last.recv)
           /\ ChainLength(last.ret) = 2

\* C30 witness: Cause was called with a foreign error on an error that
\* Expand had given a cause; the result has the wrapped foreign error as
\* its only cause and the text of the former cause is not in its text.
C30_Witness ==
    /\ last.op = "Cause"
    /\ last.arg.kind = "foreign"
    /\ last.recv.content.cause.kind = "Error"
    /\ last.recv.content.cause = Bare(last.recv.content.cause)
    /\ e = last.ret
    /\ e.content.cause # last.recv.content.cause
    /\ ChainLength(e) = 2
    /\ OwnText(last.recv.content.cause) # <<>>
    /\ ~Contains(Error(e), OwnText(last.recv.content.cause))

====
